---- MODULE Spec2Model ----
(***************************************************************************)
(* Social login (src/app.py): three OAuth callback handlers, the           *)
(* read-then-write identity upsert save_user, the session writer and       *)
(* logout.                                                                 *)
(*                                                                         *)
(* The auth_users table is the external store shared by every server       *)
(* process; a request is one handler invocation.  A handler step is the    *)
(* code between two calls that leave the process (token endpoint, profile  *)
(* endpoint, store select, store write), so steps of different requests    *)
(* interleave exactly at those calls.                                      *)
(*                                                                         *)
(* The session is the cookie session of SessionMiddleware: a request works *)
(* on its own copy of the cookie it carried, and the answer replaces the   *)
(* cookie of the browser with that copy.                                   *)
(***************************************************************************)
EXTENDS Integers, Sequences, FiniteSets, TLC

----------------------------------------------------------------------------
(* Bounds *)

MaxInFlight == 2     \* requests being served at the same time
MaxRequests == 3     \* requests received in a run

Browsers == {"b1", "b2"}
Providers == {"google", "facebook", "microsoft"}
Reqs == 1..MaxInFlight

----------------------------------------------------------------------------
(* JSON / Python values: None, strings and dicts.  A dict is a function    *)
(* from its keys to values.                                                *)

None == [t |-> "null"]
S(x) == [t |-> "str", v |-> x]
Obj(d) == [t |-> "obj", v |-> d]
EmptyDict == <<>>

\* d.get(k)
Get(d, k) == IF k \in DOMAIN d THEN d[k] ELSE None

\* d.get(k, default)
GetDefault(d, k, default) == IF k \in DOMAIN d THEN d[k] ELSE default

\* d[k] = v
Put(d, k, v) == [x \in (DOMAIN d) \cup {k} |-> IF x = k THEN v ELSE d[x]]

\* d.pop(k, None)
Del(d, k) == [x \in (DOMAIN d) \ {k} |-> d[x]]

\* Python truthiness of a value: None, "" and {} are falsy
Truthy(j) == j # None /\ j # S("") /\ j # Obj(EmptyDict)

\* a or b
Or(a, b) == IF Truthy(a) THEN a ELSE b

----------------------------------------------------------------------------
(* Inputs: what the providers' endpoints answer *)

Ids == {"u1"}
Faces == {<<"A", "a@x.com">>, <<"B", "b@x.com">>}

GoogleProfiles ==
    { [sub |-> S(i), name |-> S(f[1]), email |-> S(f[2]), picture |-> S("http://gimg")] :
        i \in Ids, f \in Faces }

FacebookProfiles ==
    { [id |-> S(i), name |-> S(f[1]), email |-> S(f[2]),
       picture |-> Obj([data |-> Obj([url |-> S("http://img")])])] :
        i \in Ids, f \in Faces }

MicrosoftProfiles ==
    { [id |-> S(i), displayName |-> S(f[1]), mail |-> S(f[2]),
       userPrincipalName |-> S("upn@x.com")] :
        i \in Ids, f \in Faces }

Profiles(provider) ==
    CASE provider = "google" -> GoogleProfiles
      [] provider = "facebook" -> FacebookProfiles
      [] provider = "microsoft" -> MicrosoftProfiles

\* body of an upstream error response of a profile endpoint
ErrorDoc == [error |-> S("invalid_token")]

\* the state value the authorization redirect and the callback carry
StateToken == S("s1")

StateParams == {StateToken, S("forged")}

----------------------------------------------------------------------------
(* Responses a handler returns *)

NoResp == [kind |-> "none"]
RedirectHome == [kind |-> "redirect", url |-> "/"]
ErrorPage == [kind |-> "error_page"]
JsonError == [kind |-> "json_error"]
Uncaught == [kind |-> "exception"]

\* home(): the template is rendered with the session's user
HomePage(user) == [kind |-> "home", user |-> user]

\* the 302 to the provider's consent screen, with the state it carries
Authorize(provider, state) == [kind |-> "authorize", provider |-> provider, state |-> state]

----------------------------------------------------------------------------
(* Field normalisation of the three callbacks *)

Normalized(provider_id, name, email, picture) ==
    [ok |-> TRUE, provider_id |-> provider_id, name |-> name,
     email |-> email, picture |-> picture]

\* an attribute error while the arguments of save_user are evaluated
Raises == [ok |-> FALSE]

auth_google_args(user_data) ==
    Normalized(Get(user_data, "sub"), Get(user_data, "name"),
               Get(user_data, "email"), Get(user_data, "picture"))

\* user_info.get("picture", {}).get("data", {}).get("url")
facebook_picture(user_info) ==
    LET pic == GetDefault(user_info, "picture", Obj(EmptyDict))
    IN  IF pic.t # "obj" THEN Raises
        ELSE LET dat == GetDefault(pic.v, "data", Obj(EmptyDict))
             IN  IF dat.t # "obj" THEN Raises
                 ELSE [ok |-> TRUE, val |-> Get(dat.v, "url")]

auth_facebook_args(user_info) ==
    LET pic == facebook_picture(user_info)
    IN  IF ~pic.ok THEN Raises
        ELSE Normalized(Get(user_info, "id"), Get(user_info, "name"),
                        Get(user_info, "email"), pic.val)

\* the email taken from mail alone
auth_redirect_args_mail_only(graph_data) ==
    Normalized(Get(graph_data, "id"), Get(graph_data, "displayName"),
               Get(graph_data, "mail"), None)

auth_redirect_args(graph_data) ==
    Normalized(Get(graph_data, "id"), Get(graph_data, "displayName"),
               Or(Get(graph_data, "mail"), Get(graph_data, "userPrincipalName")),
               None)

Normalize(provider, u) ==
    CASE provider = "google" -> auth_google_args(u)
      [] provider = "facebook" -> auth_facebook_args(u)
      [] provider = "microsoft" -> auth_redirect_args(u)

----------------------------------------------------------------------------
(* The auth_users table and save_user *)

\* the dict save_user builds; now is datetime.utcnow()
save_user_data(provider, n, raw_data, now) ==
    [provider |-> provider,
     provider_user_id |-> n.provider_id,
     name |-> n.name,
     email |-> n.email,
     profile_picture |-> n.picture,
     raw_data |-> raw_data,
     updated_at |-> now]

\* .eq("provider", provider).eq("provider_user_id", provider_id), as
\* equality of the two column values
Matches(row, provider, provider_id) ==
    row.provider = provider /\ row.provider_user_id = provider_id

\* table.select("*").eq(..).eq(..).execute().data
Select(tbl, provider, provider_id) ==
    SelectSeq(tbl, LAMBDA row : Matches(row, provider, provider_id))

\* an update that leaves updated_at as it was
UpdateKeepsTimestamp(tbl, data, provider, provider_id) ==
    [k \in DOMAIN tbl |->
        IF Matches(tbl[k], provider, provider_id)
        THEN [data EXCEPT !.updated_at = tbl[k].updated_at]
        ELSE tbl[k]]

\* an update of the first matching row only
UpdateFirstMatch(tbl, data, provider, provider_id) ==
    [k \in DOMAIN tbl |->
        IF /\ Matches(tbl[k], provider, provider_id)
           /\ \A l \in 1..(k - 1) : ~Matches(tbl[l], provider, provider_id)
        THEN data
        ELSE tbl[k]]

\* table.update(data).eq(..).eq(..).execute()
Update(tbl, data, provider, provider_id) ==
    [k \in DOMAIN tbl |->
        IF Matches(tbl[k], provider, provider_id) THEN data ELSE tbl[k]]

\* table.insert(data).execute()
Insert(tbl, data) == Append(tbl, data)

\* a save_user that only updates
save_user_update_only(tbl, existing, data) ==
    Update(tbl, data, data.provider, data.provider_user_id)

\* the branch of save_user on what the select returned
save_user_write(tbl, existing, data) ==
    IF existing
    THEN Update(tbl, data, data.provider, data.provider_user_id)
    ELSE Insert(tbl, data)

----------------------------------------------------------------------------
(* Which handler wraps its body in try/except, and the order of its steps *)

Catches(provider) == provider \in {"google", "facebook"}

\* what a handler returns when a step raises
OnException(provider) == IF Catches(provider) THEN ErrorPage ELSE Uncaught

\* the session written right after the profile fetch, before save_user
ThenSessionFirst(pc) ==
    CASE pc = "token" -> "fetch"
      [] pc = "fetch" -> "session"
      [] pc = "select" -> "write"
      [] pc = "write" -> "done"
      [] pc = "session" -> "done"

\* the step that follows a step that went through
Then(pc) ==
    CASE pc = "token" -> "fetch"
      [] pc = "fetch" -> "select"
      [] pc = "select" -> "write"
      [] pc = "write" -> "session"
      [] pc = "session" -> "done"

\* the key under which the OAuth client keeps the state of a redirect
StateKey(provider) ==
    CASE provider = "google" -> "_state_google_s1"
      [] provider = "facebook" -> "_state_facebook_s1"
      [] provider = "microsoft" -> "_state_microsoft_s1"

\* request.session[k] = v, on the session of request r
session_set(r, k, v) == [r EXCEPT !.sess = Put(@, k, v)]

\* request.session.clear()
session_clear(r) == [r EXCEPT !.sess = EmptyDict]

\* SessionMiddleware when the response of r starts: a session with entries
\* is sent as the cookie; an empty one expires the cookie when the request
\* carried one, and sends no cookie otherwise
send_wrapper(cookie, r) ==
    IF r.sess # EmptyDict THEN r.sess
    ELSE IF ~r.fresh THEN EmptyDict
    ELSE cookie

\* a cookie that every browser takes
SetCookieAll(cookies, r) ==
    [b \in DOMAIN cookies |-> send_wrapper(cookies[b], r)]

\* the cookies of the browsers after the answer to r; an exception that
\* leaves the handler passes the middleware without a cookie
SetCookie(cookies, r) ==
    IF r.resp = Uncaught
    THEN cookies
    ELSE [cookies EXCEPT ![r.browser] = send_wrapper(@, r)]

----------------------------------------------------------------------------
(* State *)

VARIABLES
    store,      \* the rows of auth_users, in insertion order; the table has
                \* no uniqueness constraint on (provider, provider_user_id)
    clock,      \* the value datetime.utcnow() returned last, 0 before the
                \* first read
    ticked,     \* the wall clock has moved on since that read
    session,    \* per browser, the session cookie it holds
    reqs,       \* per slot, the request being served
    last,       \* the request answered most recently, with its response
    received    \* number of requests received so far

vars == <<store, clock, ticked, session, reqs, last, received>>

Idle ==
    [pc |-> "idle", handler |-> "none", browser |-> "none", provider |-> "none",
     answers |-> FALSE, overlap |-> FALSE, upstream |-> "none", user |-> EmptyDict,
     data |-> EmptyDict, existing |-> FALSE, log |-> <<>>, resp |-> NoResp,
     sess |-> EmptyDict, fresh |-> FALSE]

Init ==
    /\ store = <<>>
    /\ clock = 0
    /\ ticked = TRUE
    /\ session = [b \in Browsers |-> EmptyDict]
    /\ reqs = [i \in Reqs |-> Idle]
    /\ last = Idle
    /\ received = 0

\* what datetime.utcnow() can return: a value later than the last one read,
\* or that same value when the read comes at the same moment, before any
\* other step has been taken
utcnow == IF ticked THEN {clock + 1} ELSE {clock, clock + 1}

\* a step that reads the clock as now
Read(now) == clock' = now /\ ticked' = FALSE

\* a step that reads no clock: it takes time
Tick == clock' = clock /\ ticked' = TRUE

\* a request that carried the cookie: request.session is a copy of it
Request(handler, b, provider, cookie) ==
    [Idle EXCEPT !.pc = "send", !.handler = handler, !.browser = b,
                 !.provider = provider, !.sess = cookie,
                 !.fresh = (cookie = EmptyDict)]

\* the handler of r returns resp
Return(r, resp) == [r EXCEPT !.pc = "send", !.resp = resp]

\* a request that stops with a response; its profile and data dict are gone
Stop(r, resp) ==
    [r EXCEPT !.pc = "done", !.resp = resp, !.user = EmptyDict, !.data = EmptyDict]

\* a callback whose step went through; done lists what the step has done
Go(r, done) == [r EXCEPT !.pc = Then(r.pc), !.log = @ \o done]

\* a slot is free while it serves no request
Free(r) == r.pc = "idle"

\* an answered request: its session went out as the cookie
Sent(r) == [r EXCEPT !.pc = "done", !.sess = EmptyDict, !.fresh = FALSE]

\* slot i answers: the response leaves with the cookie and the slot is free
\* again
Answer(i, r) ==
    /\ reqs' = [reqs EXCEPT ![i] = Idle]
    /\ last' = Sent(r)
    /\ session' = SetCookie(session, r)

\* slot i goes on with its request
Continue(i, r) ==
    /\ reqs' = [reqs EXCEPT ![i] = r]
    /\ last' = last
    /\ session' = session

\* slot i takes the step that leaves its request as r
Step(i, r) == IF r.pc = "done" THEN Answer(i, r) ELSE Continue(i, r)

\* q is a callback on its way to the store for the provider of r
Rival(q, r) ==
    q.handler = "callback" /\ q.pc \notin {"idle", "send"} /\ q.provider = r.provider

\* slot i starts to serve callback r; r and the callbacks being served for
\* the same provider are noted to overlap
Begin(i, r) ==
    /\ reqs' = [j \in Reqs |->
           IF j = i
           THEN [r EXCEPT !.overlap = \E k \in Reqs \ {i} : Rival(reqs[k], r)]
           ELSE IF Rival(reqs[j], r)
                THEN [reqs[j] EXCEPT !.overlap = TRUE]
                ELSE reqs[j]]
    /\ last' = last
    /\ session' = session

\* a request arrives and is served in slot i, the first free one
Receive(i) ==
    /\ Free(reqs[i])
    /\ \A j \in Reqs : j < i => ~Free(reqs[j])
    /\ received < MaxRequests
    /\ received' = received + 1

\* the response of slot i starts: the middleware sets the cookie and the
\* response leaves
respond(i) ==
    /\ reqs[i].pc = "send"
    /\ Answer(i, reqs[i])
    /\ UNCHANGED <<store, received>>
    /\ Tick

----------------------------------------------------------------------------
(* Handlers without a callback *)

\* GET /
home(i, b) ==
    LET r == Request("home", b, "none", session[b]) IN
    /\ Receive(i)
    /\ Continue(i, Return(r, HomePage(Get(r.sess, "user"))))
    /\ UNCHANGED store
    /\ Tick

\* GET /login/google, GET /login/facebook: authorize_redirect keeps the state
\* in the session and sends it along
authorize(r) ==
    Return(session_set(r, StateKey(r.provider), StateToken),
           Authorize(r.provider, StateToken))

\* login_google waits for the server metadata, login_facebook has its
\* endpoints and returns
login_oauth(i, b, provider) ==
    LET r == Request("login", b, provider, session[b]) IN
    /\ Receive(i)
    /\ provider \in {"google", "facebook"}
    /\ Continue(i, IF provider = "google"
                   THEN [r EXCEPT !.pc = "metadata"]
                   ELSE authorize(r))
    /\ UNCHANGED store
    /\ Tick

\* login_google: the server metadata arrives and the redirect is returned,
\* or the load fails (ok is FALSE) and the exception leaves the handler
authorize_redirect(i, ok) ==
    LET r == reqs[i] IN
    /\ r.pc = "metadata"
    /\ Answer(i, IF ok THEN authorize(r) ELSE Return(r, Uncaught))
    /\ UNCHANGED <<store, received>>
    /\ Tick

\* GET /login/microsoft: the msal application looks up its authority
login_microsoft(i, b) ==
    /\ Receive(i)
    /\ Continue(i, [Request("login", b, "microsoft", session[b]) EXCEPT !.pc = "authority"])
    /\ UNCHANGED store
    /\ Tick

\* login_microsoft: the authority answers and _build_auth_url() returns the
\* url, which carries no state, or the lookup fails (ok is FALSE) and the
\* exception leaves the handler
build_auth_url(i, ok) ==
    LET r == reqs[i] IN
    /\ r.pc = "authority"
    /\ Answer(i, Return(r, IF ok THEN Authorize("microsoft", None) ELSE Uncaught))
    /\ UNCHANGED <<store, received>>
    /\ Tick

\* GET /logout
logout(i, b) ==
    LET r == Request("logout", b, "none", session[b]) IN
    /\ Receive(i)
    /\ Continue(i, Return(session_clear(r), RedirectHome))
    /\ UNCHANGED store
    /\ Tick

----------------------------------------------------------------------------
(* Callbacks: GET /auth/google, /auth/facebook, /auth/redirect *)

Callback(b, provider, answers, cookie) ==
    [Request("callback", b, provider, cookie) EXCEPT !.pc = "token", !.answers = answers]

\* auth_google, auth_facebook up to the token request: authorize_access_token
\* takes the state record of the request's state out of the session and
\* raises when there is none
auth_oauth_start(i, b, provider, state) ==
    /\ Receive(i)
    /\ provider \in {"google", "facebook"}
    /\ LET held == state = StateToken /\ Get(session[b], StateKey(provider)) = state
           r == Callback(b, provider, held, session[b])
       IN  IF held
           THEN Begin(i, [r EXCEPT !.sess = Del(@, StateKey(provider))])
           ELSE Continue(i, Return(r, OnException(provider)))
    /\ UNCHANGED store
    /\ Tick

\* auth_redirect up to the token request: only the code is looked at
auth_redirect_start(i, b, state, code) ==
    /\ Receive(i)
    /\ LET held == state = StateToken /\ Get(session[b], StateKey("microsoft")) = state
           r == Callback(b, "microsoft", held, session[b])
       IN  IF Truthy(code)
           THEN Begin(i, r)
           ELSE Continue(i, Return(r, JsonError))
    /\ UNCHANGED store
    /\ Tick

\* the answer of the token endpoint: a token, an error response, or no answer
auth_token(i, outcome) ==
    LET r == reqs[i] IN
    /\ r.pc = "token"
    /\ Step(i,
          CASE outcome = "ok" -> Go(r, <<"token">>)
            [] outcome = "error" ->
                 Stop([r EXCEPT !.upstream = "error"],
                      IF r.provider = "microsoft" THEN JsonError ELSE OnException(r.provider))
            [] outcome = "raise" -> Stop(r, OnException(r.provider)))
    /\ UNCHANGED <<store, received>>
    /\ Tick

\* the answer of the profile endpoint, then the arguments of save_user and
\* its data dict with the timestamp now read from the clock; profiles are
\* the bodies the endpoint answers with
auth_fetch_of(i, outcome, u, profiles, now) ==
    LET r == reqs[i] IN
    /\ r.pc = "fetch"
    /\ \/ /\ outcome = "raise"
          /\ Step(i, Stop(r, OnException(r.provider)))
          /\ Tick
       \/ /\ outcome = "error"
          /\ r.provider = "google"          \* userinfo() raises for the status
          /\ Step(i, Stop([r EXCEPT !.upstream = "error"], OnException(r.provider)))
          /\ Tick
       \/ /\ \/ outcome = "ok" /\ u \in profiles
             \/ outcome = "error" /\ r.provider # "google" /\ u = ErrorDoc
          /\ LET n == Normalize(r.provider, u)
                 q == [r EXCEPT !.user = u,
                                !.upstream = IF outcome = "ok" THEN "ok" ELSE "error"]
             IN  IF ~n.ok
                 THEN /\ Step(i, Stop(q, OnException(r.provider)))
                      /\ Tick
                 ELSE /\ now \in utcnow
                      /\ Read(now)
                      /\ Step(i, Go([q EXCEPT !.data =
                                          save_user_data(r.provider, n, u, now)],
                                     <<"profile", "normalize">>))
    /\ UNCHANGED <<store, received>>

auth_fetch(i, outcome, u, now) ==
    auth_fetch_of(i, outcome, u, Profiles(reqs[i].provider), now)

\* save_user: the select; the call fails when ok is FALSE
save_user_select(i, ok) ==
    LET r == reqs[i] IN
    /\ r.pc = "select"
    /\ Step(i,
          IF ok
          THEN Go([r EXCEPT !.existing =
                      Select(store, r.data.provider, r.data.provider_user_id) # <<>>],
                  <<>>)
          ELSE Stop(r, OnException(r.provider)))
    /\ UNCHANGED <<store, received>>
    /\ Tick

\* save_user: the update or the insert; the call fails when ok is FALSE
save_user_store(i, ok) ==
    LET r == reqs[i] IN
    /\ r.pc = "write"
    /\ IF ok
       THEN /\ store' = save_user_write(store, r.existing, r.data)
            /\ Step(i, Go(r, <<"upsert">>))
       ELSE /\ store' = store
            /\ Step(i, Stop(r, OnException(r.provider)))
    /\ UNCHANGED received
    /\ Tick

\* request.session['user'] = the profile; return RedirectResponse("/")
auth_session(i) ==
    LET r == reqs[i] IN
    /\ r.pc = "session"
    /\ Step(i, Stop(Go(session_set(r, "user", r.user), <<"session", "redirect">>),
                    RedirectHome))
    /\ UNCHANGED <<store, received>>
    /\ Tick

Outcomes == {"ok", "error", "raise"}
Payloads == GoogleProfiles \cup FacebookProfiles \cup MicrosoftProfiles \cup {ErrorDoc}
Codes == {S("c1"), None}

Next ==
    \/ \E i \in Reqs, b \in Browsers : home(i, b)
    \/ \E i \in Reqs, b \in Browsers, p \in Providers : login_oauth(i, b, p)
    \/ \E i \in Reqs, ok \in BOOLEAN : authorize_redirect(i, ok)
    \/ \E i \in Reqs, b \in Browsers : login_microsoft(i, b)
    \/ \E i \in Reqs, ok \in BOOLEAN : build_auth_url(i, ok)
    \/ \E i \in Reqs, b \in Browsers : logout(i, b)
    \/ \E i \in Reqs : respond(i)
    \/ \E i \in Reqs, b \in Browsers, p \in Providers, st \in StateParams :
          auth_oauth_start(i, b, p, st)
    \/ \E i \in Reqs, b \in Browsers, st \in StateParams, c \in Codes :
          auth_redirect_start(i, b, st, c)
    \/ \E i \in Reqs, o \in Outcomes : auth_token(i, o)
    \/ \E i \in Reqs, o \in Outcomes, u \in Payloads, now \in utcnow :
          auth_fetch(i, o, u, now)
    \/ \E i \in Reqs, ok \in BOOLEAN : save_user_select(i, ok)
    \/ \E i \in Reqs, ok \in BOOLEAN : save_user_store(i, ok)
    \/ \E i \in Reqs : auth_session(i)

Spec == Init /\ [][Next]_vars

----------------------------------------------------------------------------
(* Normalisation on its own: one callback that has its token, answered     *)
(* with every shape of Facebook and Microsoft profile                      *)

\* the dict d, with key k when a value is given
With(d, k, v) == IF v = <<>> THEN d ELSE Put(d, k, v[1])

\* a value that is missing (<<>>), null, or one of vals
Optional(vals) == {<<>>, <<None>>} \cup {<<x>> : x \in vals}

MicrosoftInputs ==
    { With(With([id |-> S(i), displayName |-> S("A")], "mail", m), "userPrincipalName", p) :
        i \in Ids,
        m \in Optional({S(""), S("m@x.com")}),
        p \in Optional({S("upn@x.com")}) }

PictureInputs ==
    Optional({ Obj(EmptyDict),
               Obj([data |-> None]),
               Obj([data |-> Obj(EmptyDict)]),
               Obj([data |-> Obj([url |-> None])]),
               Obj([data |-> Obj([url |-> S("http://img")])]) })

FacebookInputs ==
    { With([id |-> S(i), name |-> S("A"), email |-> S("a@x.com")], "picture", pic) :
        i \in Ids, pic \in PictureInputs }

Inputs(provider) ==
    CASE provider = "google" -> GoogleProfiles
      [] provider = "facebook" -> FacebookInputs
      [] provider = "microsoft" -> MicrosoftInputs

\* the browser holds the cookie of its authorization redirect; Microsoft's
\* redirect leaves none
CookieOf(provider) ==
    IF provider = "microsoft"
    THEN EmptyDict
    ELSE Put(EmptyDict, StateKey(provider), StateToken)

InitNorm ==
    /\ store = <<>>
    /\ clock = 0
    /\ ticked = TRUE
    /\ \E b \in Browsers, p \in Providers :
          /\ session = [c \in Browsers |-> IF c = b THEN CookieOf(p) ELSE EmptyDict]
          /\ reqs = [i \in Reqs |->
                    IF i = 1
                    THEN Go([Callback(b, p, p # "microsoft", CookieOf(p))
                                EXCEPT !.sess = EmptyDict],
                            <<"token">>)
                    ELSE Idle]
    /\ last = Idle
    /\ received = 1

NextNorm ==
    \/ \E i \in Reqs, u \in FacebookInputs \cup MicrosoftInputs \cup GoogleProfiles,
          now \in utcnow :
          auth_fetch_of(i, "ok", u, Inputs(reqs[i].provider), now)
    \/ \E i \in Reqs, ok \in BOOLEAN : save_user_select(i, ok)
    \/ \E i \in Reqs, ok \in BOOLEAN : save_user_store(i, ok)
    \/ \E i \in Reqs : auth_session(i)

SpecNorm == InitNorm /\ [][NextNorm]_vars

----------------------------------------------------------------------------
(* Vocabulary of the properties *)

\* the rows of tbl that hold the pair (provider, provider_id)
PairRows(tbl, provider, provider_id) ==
    {k \in DOMAIN tbl : Matches(tbl[k], provider, provider_id)}

\* the 'user' entry of the session of browser b, None when there is none
User(sess, b) == Get(sess[b], "user")

\* the request of slot i has taken this step
Moved(i) == [reqs'[i] EXCEPT !.overlap = FALSE] # [reqs[i] EXCEPT !.overlap = FALSE]

\* this step is the store write of save_user for slot i, and it went through
Wrote(i) == reqs[i].pc = "write" /\ Moved(i) /\ "upsert" \in {reqs'[i].log[k] : k \in DOMAIN reqs'[i].log}

\* this step is the session write of slot i
WroteSession(i) == reqs[i].pc = "session" /\ Moved(i)

\* this step receives the request of slot i
Received(i) == reqs[i].pc = "idle" /\ reqs'[i].pc # "idle"

\* this step answers the request of slot i
Answered(i) == reqs[i].pc # "idle" /\ reqs'[i].pc = "idle"

\* this step answers a request of the handler in browser b
Handled(handler, b) ==
    \E i \in Reqs :
        Answered(i) /\ reqs[i].handler = handler /\ reqs[i].browser = b

\* this step is taken by a request of browser b
Acts(b) ==
    \E i \in Reqs : Moved(i) /\ (reqs[i].browser = b \/ reqs'[i].browser = b)

Steps(r) == {r.log[k] : k \in DOMAIN r.log}

\* the order of the steps of a callback
CallbackOrder == <<"token", "profile", "normalize", "upsert", "session", "redirect">>

IsPrefix(a, b) == Len(a) <= Len(b) /\ \A k \in DOMAIN a : a[k] = b[k]

----------------------------------------------------------------------------
(* C1: the store never holds two records with the same                     *)
(* (provider, provider_user_id) pair, whatever the interleaving of the     *)
(* callbacks.                                                              *)
C1_OneRecordPerPair ==
    \A k, l \in DOMAIN store :
        (k # l /\ store[k].provider_user_id # None)
            => ~Matches(store[k], store[l].provider, store[l].provider_user_id)

(* C2: when a callback that no other callback of its provider overlaps     *)
(* gets a valid profile P and its upsert goes through, the store holds     *)
(* exactly one record for P's pair; when it then writes the session, the   *)
(* 'user' entry of its browser is P.                                       *)
C2_ExactlyOneRecordAndSession ==
    [][\A i \in Reqs :
          LET r == reqs[i] IN
          /\ (Wrote(i) /\ ~r.overlap /\ r.upstream = "ok")
                => Cardinality(PairRows(store', r.provider,
                                        Normalize(r.provider, r.user).provider_id)) = 1
          /\ (WroteSession(i) /\ ~r.overlap /\ r.upstream = "ok")
                => User(session', r.browser) = r.user]_vars

(* C3: a callback whose pair is already in the store, and that no other    *)
(* callback of its provider overlaps, updates in place: the number of      *)
(* records is unchanged, every record of the pair carries the name, email, *)
(* picture and raw data of the callback's profile, and its updated_at is   *)
(* strictly later than before.                                             *)
C3_UpdateInPlace ==
    [][\A i \in Reqs :
          LET r == reqs[i]
              n == Normalize(r.provider, r.user)
              rows == PairRows(store, r.provider, n.provider_id)
          IN  (Wrote(i) /\ ~r.overlap /\ rows # {})
                => /\ Len(store') = Len(store)
                   /\ PairRows(store', r.provider, n.provider_id) = rows
                   /\ \A k \in rows :
                        /\ store'[k].name = n.name
                        /\ store'[k].email = n.email
                        /\ store'[k].profile_picture = n.picture
                        /\ store'[k].raw_data = r.user
                        /\ store'[k].updated_at > store[k].updated_at
                   /\ \A k \in (DOMAIN store) \ rows : store'[k] = store[k]]_vars

\* the store holds one record that a second callback has updated: it carries
\* the second face of the profile and the second reading of the clock
C3_Witness ==
    \E k \in DOMAIN store :
        /\ Len(store) = 1
        /\ store[k].updated_at = 2
        /\ store[k].name = S("B")
        /\ last.handler = "callback" /\ last.resp = RedirectHome
        /\ last.existing /\ ~last.overlap

(* C4: a callback whose token exchange or profile fetch was answered with  *)
(* an upstream error response writes no 'user' entry into its session and  *)
(* writes no record.                                                       *)
C4_UpstreamErrorWritesNothing ==
    [][\A i \in Reqs :
          (reqs[i].upstream = "error" /\ Moved(i))
            => /\ store' = store
               /\ ~WroteSession(i)]_vars

(* C5: no failure of a callback leaves the handler as an uncaught          *)
(* exception: every callback is answered with a response of the handler.   *)
C5_NoUncaughtException ==
    last.handler = "callback" => last.resp # Uncaught

(* C6: once a logout is answered the session of its browser has no         *)
(* entries and the store is as it was, and a home page asked for while the *)
(* session has no entries shows no user.                                   *)
C6_LogoutClearsSession ==
    [][\A b \in Browsers :
          /\ Handled("logout", b) => (session'[b] = EmptyDict /\ store' = store)
          /\ \A i \in Reqs :
                (Received(i) /\ reqs'[i].handler = "home" /\ reqs'[i].browser = b
                    /\ session[b] = EmptyDict)
                  => (reqs'[i].resp = HomePage(None) /\ store' = store)]_vars

(* C7: the 'user' entry of a browser changes only from present to absent   *)
(* by a logout of that browser, or to the profile of a callback of that    *)
(* browser whose token exchange and profile fetch were answered without    *)
(* error and whose upsert went through.                                    *)
C7_UserEntryTransitions ==
    [][\A b \in Browsers :
          User(session', b) # User(session, b)
            => \/ Handled("logout", b) /\ User(session', b) = None
               \/ \E i \in Reqs :
                    /\ WroteSession(i)
                    /\ reqs[i].browser = b
                    /\ reqs[i].upstream = "ok"
                    /\ "upsert" \in Steps(reqs[i])
                    /\ User(session', b) = reqs[i].user]_vars

(* C8: every authorization redirect carries a state parameter, and a       *)
(* callback is answered with the redirect to the home page only if the     *)
(* session of its browser held the state of an authorization redirect of   *)
(* its provider equal to the state of the request.                         *)
C8_StateChecked ==
    /\ (last.handler = "login" /\ last.resp.kind = "authorize")
          => last.resp.state # None
    /\ (last.handler = "callback" /\ last.resp = RedirectHome) => last.answers

(* C9: a step of a request of one browser leaves the session of every      *)
(* other browser as it was.                                                *)
C9_SessionsPrivate ==
    [][\A b \in Browsers :
          session'[b] # session[b] => Acts(b)]_vars

\* the two browsers are signed in with different profiles
C9_Witness ==
    /\ User(session, "b1") # None
    /\ User(session, "b2") # None
    /\ User(session, "b1") # User(session, "b2")

(* C10: the steps of a callback are taken in the order token exchange,     *)
(* profile fetch, normalisation, upsert, session write, redirect; none is  *)
(* skipped.                                                                *)
C10_StepsInOrder ==
    /\ \A i \in Reqs : IsPrefix(reqs[i].log, CallbackOrder)
    /\ IsPrefix(last.log, CallbackOrder)

\* a callback has gone through all its steps
C10_Witness ==
    last.log = CallbackOrder

(* C11: the 'user' entry of a browser is either absent or exactly the      *)
(* profile of the callback that wrote the session of that browser last:    *)
(* a callback that writes the session leaves its whole profile as the      *)
(* entry, with no key of the entry it replaces, and the entry changes only *)
(* by such a write or, to absent, by a logout of the browser.              *)
C11_SessionOverwrites ==
    [][\A b \in Browsers :
          /\ \A i \in Reqs :
                (WroteSession(i) /\ reqs[i].browser = b)
                    => session'[b]["user"] = reqs[i].user
          /\ User(session', b) # User(session, b)
                => \/ Handled("logout", b) /\ "user" \notin DOMAIN session'[b]
                   \/ \E i \in Reqs : WroteSession(i) /\ reqs[i].browser = b]_vars

(* C12: an authorization redirect request leaves every record of the store *)
(* and the 'user' entry of every browser as they were.                     *)
C12_LoginNoSideEffect ==
    [][\A b \in Browsers :
          Handled("login", b)
            => /\ store' = store
               /\ \A c \in Browsers : User(session', c) = User(session, c)]_vars

\* u is an answer of the profile endpoint of the provider
AnswerOf(provider, u) == u \in Profiles(provider) \/ u = ErrorDoc

(* C15: whenever the session of a browser holds a 'user' entry P, the      *)
(* store holds a record of P's provider whose provider_user_id is the id   *)
(* of P.                                                                   *)
C15_SessionUserHasRecord ==
    \A b \in Browsers :
        User(session, b) # None
            => \E p \in Providers, k \in DOMAIN store :
                  /\ AnswerOf(p, User(session, b))
                  /\ store[k].provider = p
                  /\ store[k].provider_user_id = Normalize(p, User(session, b)).provider_id

\* a browser is signed in with a Facebook profile
C15_Witness ==
    \E b \in Browsers : User(session, b) \in FacebookProfiles

(* C16: the updated_at of a record with a provider-issued id never         *)
(* decreases from one write to the next, whatever the interleaving of the  *)
(* callbacks.                                                              *)
C16_UpdatedAtMonotone ==
    [][\A k \in DOMAIN store :
          store[k].provider_user_id # None
            => store'[k].updated_at >= store[k].updated_at]_vars

(* C17: when the store holds several records for one pair and a callback   *)
(* for that pair that no other callback of its provider overlaps writes    *)
(* the store, all records of the pair are left identical, with the name,   *)
(* email, picture and raw data of the callback's profile and one           *)
(* updated_at.                                                             *)
C17_UpdateWritesAllMatches ==
    [][\A i \in Reqs :
          LET r == reqs[i]
              n == Normalize(r.provider, r.user)
              rows == PairRows(store, r.provider, n.provider_id)
          IN  (Wrote(i) /\ ~r.overlap /\ Cardinality(rows) >= 2)
                => /\ PairRows(store', r.provider, n.provider_id) = rows
                   /\ \A k, l \in rows : store'[k] = store'[l]
                   /\ \A k \in rows :
                        /\ store'[k].name = n.name
                        /\ store'[k].email = n.email
                        /\ store'[k].profile_picture = n.picture
                        /\ store'[k].raw_data = r.user]_vars

\* two records of one pair, inserted by a race, have been made identical by
\* a later callback
C17_Witness ==
    /\ Len(store) = 2
    /\ store[1] = store[2]
    /\ last.handler = "callback" /\ last.resp = RedirectHome
    /\ last.existing /\ ~last.overlap

\* the Microsoft records of the store
MicrosoftRows == {k \in DOMAIN store : store[k].provider = "microsoft"}

(* C13 as stated: the email of a Microsoft record is the profile's mail    *)
(* when mail is present and not null, and its userPrincipalName when mail  *)
(* is null or absent.                                                      *)
C13_MailUnlessNull ==
    \A k \in MicrosoftRows :
        LET u == store[k].raw_data IN
        store[k].email = IF "mail" \in DOMAIN u /\ u["mail"] # None
                         THEN u["mail"]
                         ELSE Get(u, "userPrincipalName")

(* C13: the email of a Microsoft record is the profile's mail when mail is *)
(* present, not null and not the empty string, and its userPrincipalName   *)
(* (null when there is none) when mail is absent, null or the empty        *)
(* string.                                                                 *)
C13_MailUnlessEmpty ==
    \A k \in MicrosoftRows :
        LET u == store[k].raw_data IN
        store[k].email = IF "mail" \in DOMAIN u /\ u["mail"] \notin {None, S("")}
                         THEN u["mail"]
                         ELSE Get(u, "userPrincipalName")

\* a profile with mail null and a userPrincipalName has been stored under
\* the userPrincipalName, and one with a mail under its mail
C13_Witness ==
    \E k \in MicrosoftRows :
        LET u == store[k].raw_data IN
        /\ "mail" \in DOMAIN u /\ u["mail"] = None
        /\ store[k].email = S("upn@x.com")

\* the url at picture.data.url of a Facebook profile, None when a step of
\* the path is missing or null
PictureUrl(u) ==
    LET pic == Get(u, "picture")
        dat == IF pic.t = "obj" THEN Get(pic.v, "data") ELSE None
    IN  IF dat.t = "obj" THEN Get(dat.v, "url") ELSE None

(* C14: a Facebook callback whose profile fetch is answered gets through   *)
(* the normalisation whatever the picture field holds, and the picture of  *)
(* a Facebook record is the profile's picture.data.url, null when the      *)
(* picture, its data or its url is missing or null.                        *)
C14_PictureOrNull ==
    /\ (last.provider = "facebook" /\ last.upstream = "ok") => "normalize" \in Steps(last)
    /\ \A k \in DOMAIN store :
          store[k].provider = "facebook"
            => store[k].profile_picture = PictureUrl(store[k].raw_data)

====
